---- MODULE Spec2Model ----
(***************************************************************************)
(* Model of the employee dashboard (src/src/components/Dashboard.tsx):     *)
(*   - the Dashboard component's refs, the host grid's readiness and       *)
(*     pagination, and the calculateDynamicPageSize callback       (Spec)  *)
(*   - the cell renderers and value formatters of the column definitions,  *)
(*     applied to one cell value                              (SpecCells)  *)
(* JavaScript values are tagged records: [t |-> "number", v |-> 3], ...    *)
(***************************************************************************)
EXTENDS Integers, Sequences, FiniteSets, TLC

VARIABLES
    gridRef,            \* gridRef.current: "null" | "instance" (api undefined) | "api"
    containerRef,       \* containerRef.current is attached (TRUE) or null (FALSE)
    clientHeight,       \* the container element's measured clientHeight (px)
    themeRowHeight,     \* api.getSizesForCurrentTheme().rowHeight (px, 0 = unmeasured)
    paginationPageSize, \* the grid's pagination page size
    locals,             \* the consts of the last run of calculateDynamicPageSize's then-branch
    console,            \* the console.log lines written so far
    locale,             \* the runtime's default locale
    tzWest,             \* the runtime's time zone lies west of UTC
    cell,               \* the cell handed to a formatter or renderer: [column, value]
    display             \* what the formatter or renderer produced for the cell

vars == <<gridRef, containerRef, clientHeight, themeRowHeight, paginationPageSize,
          locals, console, locale, tzWest, cell, display>>

dashVars == <<gridRef, containerRef, clientHeight, themeRowHeight, paginationPageSize,
              locals, console>>
cellVars == <<locale, tzWest, cell, display>>

----------------------------------------------------------------------------
(* JavaScript values *)

Undefined == [t |-> "undefined"]
Null      == [t |-> "null"]
Num(n)    == [t |-> "number", v |-> n]
Str(s)    == [t |-> "string", v |-> s]
Arr(a)    == [t |-> "array", v |-> a]
Throw(e)  == [t |-> "throw", v |-> e]

\* a || b on a number-or-undefined a and a number b
OrNumber(a, b) == IF a.t = "number" /\ a.v # 0 THEN a.v ELSE b

Max(a, b) == IF a >= b THEN a ELSE b

----------------------------------------------------------------------------
(* Bounds and input sets of the dashboard model *)

MaxLog == 3

Heights == {0, 40, 50, 60, 92, 500}
RowHeights == {0, 25, 40, 42}

----------------------------------------------------------------------------
(* The Dashboard component *)

initialPageSize == 10
pageSizeSelector == {10, 20, 50, 100}
defaultContainerHeight == 400
defaultRowHeight == 30
headerHeight == 50

ApiAvailableMsg == "Grid API available:"
ApiNotAvailableMsg == "Grid API not available yet"

NoLocals == [run |-> FALSE]

\* containerRef.current?.clientHeight
ReadClientHeight == IF containerRef THEN Num(clientHeight) ELSE Undefined

\* gridRef.current.api.getSizesForCurrentTheme().rowHeight
ReadRowHeight == Num(themeRowHeight)

ContainerHeightNoFallback == IF containerRef THEN clientHeight ELSE 0
ContainerHeight == OrNumber(ReadClientHeight, defaultContainerHeight)

RowHeight == OrNumber(ReadRowHeight, defaultRowHeight)

NewPageSizeCeil(availableHeight, rowHeight) ==
    Max(1, (availableHeight + rowHeight - 1) \div rowHeight)
\* Math.max(1, Math.floor(availableHeight / rowHeight)); \div rounds down
NewPageSize(availableHeight, rowHeight) ==
    Max(1, availableHeight \div rowHeight)

ComputeLocals ==
    LET containerHeight == ContainerHeight
        rowHeight == RowHeight
        availableHeight == containerHeight - headerHeight
    IN  [run |-> TRUE,
         containerHeight |-> containerHeight,
         rowHeight |-> rowHeight,
         headerHeight |-> headerHeight,
         availableHeight |-> availableHeight,
         newPageSize |-> NewPageSize(availableHeight, rowHeight)]

Init ==
    /\ gridRef = "null"
    /\ containerRef = FALSE
    /\ clientHeight = 0
    /\ themeRowHeight = 0
    /\ paginationPageSize = initialPageSize
    /\ locals = NoLocals
    /\ console = <<>>
    /\ locale = "en-US"
    /\ tzWest = FALSE
    /\ cell = [column |-> "none", value |-> Undefined]
    /\ display = Undefined

\* React attaches the AgGridReact ref (the child's ref is attached first)
AttachGridRef ==
    /\ gridRef = "null"
    /\ gridRef' = "instance"
    /\ UNCHANGED <<containerRef, clientHeight, themeRowHeight, paginationPageSize,
                   locals, console, cellVars>>

\* React attaches the container div's ref; the element has a measured height
AttachContainerRef(h) ==
    /\ gridRef # "null"
    /\ ~containerRef
    /\ containerRef' = TRUE
    /\ clientHeight' = h
    /\ UNCHANGED <<gridRef, themeRowHeight, paginationPageSize, locals, console, cellVars>>

\* The grid is created and ready: its api is set. AgGridReact is given no
\* onGridReady prop, so no code of the component runs on this event.
GridReady(r) ==
    /\ gridRef = "instance"
    /\ gridRef' = "api"
    /\ themeRowHeight' = r
    /\ paginationPageSize' = initialPageSize
    /\ UNCHANGED <<containerRef, clientHeight, locals, console, cellVars>>

\* The container is resized. The component registers no resize listener or
\* observer, so no code of the component runs on this event.
ContainerResize(h) ==
    /\ containerRef
    /\ h # clientHeight
    /\ clientHeight' = h
    /\ UNCHANGED <<gridRef, containerRef, themeRowHeight, paginationPageSize,
                   locals, console, cellVars>>

\* The user picks a page size from the pagination panel's selector
SelectPageSize(s) ==
    /\ gridRef = "api"
    /\ s # paginationPageSize
    /\ paginationPageSize' = s
    /\ UNCHANGED <<gridRef, containerRef, clientHeight, themeRowHeight,
                   locals, console, cellVars>>

calculateDynamicPageSizeUnguarded ==
    /\ Len(console) < MaxLog
    /\ console' = Append(console, ApiAvailableMsg)
    /\ locals' = ComputeLocals
    /\ UNCHANGED <<gridRef, containerRef, clientHeight, themeRowHeight,
                   paginationPageSize, cellVars>>

calculateDynamicPageSizeApplied ==
    /\ Len(console) < MaxLog
    /\ IF gridRef = "api"
       THEN /\ console' = Append(console, ApiAvailableMsg)
            /\ locals' = ComputeLocals
            /\ paginationPageSize' = ComputeLocals.newPageSize
       ELSE /\ console' = Append(console, ApiNotAvailableMsg)
            /\ UNCHANGED <<locals, paginationPageSize>>
    /\ UNCHANGED <<gridRef, containerRef, clientHeight, themeRowHeight, cellVars>>

\* One call of the calculateDynamicPageSize callback. Nothing in the component
\* calls it; the model lets a holder of the callback call it at any time.
calculateDynamicPageSize ==
    /\ Len(console) < MaxLog
    /\ IF gridRef = "api"
       THEN /\ console' = Append(console, ApiAvailableMsg)
            /\ locals' = ComputeLocals
       ELSE /\ console' = Append(console, ApiNotAvailableMsg)
            /\ UNCHANGED locals
    /\ UNCHANGED <<gridRef, containerRef, clientHeight, themeRowHeight,
                   paginationPageSize, cellVars>>

Next ==
    \/ AttachGridRef
    \/ \E h \in Heights : AttachContainerRef(h)
    \/ \E r \in RowHeights : GridReady(r)
    \/ \E h \in Heights : ContainerResize(h)
    \/ \E s \in pageSizeSelector : SelectPageSize(s)
    \/ calculateDynamicPageSize

Spec == Init /\ [][Next]_vars

----------------------------------------------------------------------------
(* Bounds and input sets of the cell model *)

MaxSkills == 4

Locales == {"en-US", "de-DE"}

SkillNames == {"SQL", "Docker", "Leadership", "Data Structures",
               "Machine Learning", "Python Programming"}

RECURSIVE SeqsUpTo(_, _)
SeqsUpTo(S, n) ==
    IF n = 0 THEN {<<>>}
    ELSE LET shorter == SeqsUpTo(S, n - 1)
         IN  shorter \cup {Append(q, x) : q \in {r \in shorter : Len(r) = n - 1}, x \in S}

SkillsValues ==
    {Arr(q) : q \in SeqsUpTo(SkillNames, MaxSkills)} \cup {Null, Undefined, Str("SQL")}

ManagerValues == {Null, Undefined, Str("Jane Doe"), Str("")}

\* a number with one decimal digit, n / 10
Tenths(n) == [t |-> "number", x10 |-> n]

SalaryValues ==
    {Num(n) : n \in {0, 999, 1000, 75000, 1234567}}
        \cup {Null, Undefined, Str("75000"), Str("n/a")}

RatingValues ==
    {Tenths(n) : n \in {0, 38, 45, 50}} \cup {Null, Undefined, Str("4.5")}

ParsableDates == {"2020-01-15", "2019-03-01", "2020-03-01", "2021-01-01", "2018-12-05"}
UnparsableDates == {"not-a-date", "", "N/A", "2020-13-01"}

HireDateValues ==
    {Str(d) : d \in ParsableDates \cup UnparsableDates} \cup {Null, Undefined}

Cells ==
    {[column |-> "skills", value |-> v] : v \in SkillsValues}
        \cup {[column |-> "manager", value |-> v] : v \in ManagerValues}
        \cup {[column |-> "salary", value |-> v] : v \in SalaryValues}
        \cup {[column |-> "performanceRating", value |-> v] : v \in RatingValues}
        \cup {[column |-> "hireDate", value |-> v] : v \in HireDateValues}

----------------------------------------------------------------------------
(* Cell renderers *)

maxTags == 3
maxSkillChars == 15

NotRun == [t |-> "notrun"]

\* Array.prototype.slice(0, n)
Slice0(a, n) == SubSeq(a, 1, IF Len(a) < n THEN Len(a) ELSE n)

SkillLabelNoEllipsis(skill) ==
    IF Len(skill) > maxSkillChars THEN SubSeq(skill, 1, maxSkillChars) ELSE skill
\* skill.length > 15 ? `${skill.substring(0, 15)}...` : skill
SkillLabel(skill) ==
    IF Len(skill) > maxSkillChars
    THEN SubSeq(skill, 1, maxSkillChars) \o "..."
    ELSE skill

\* <span key title={skill}>{label}{" "}</span>
SkillTag(skill) ==
    [kind |-> "tag", title |-> skill, children |-> <<SkillLabel(skill), " ">>]

\* <span>No skills</span>
NoSkillsSpan == [kind |-> "placeholder", title |-> "", children |-> <<"No skills">>]

\* <span>+{value.length - maxTags} more</span>
MoreSpan(n) == [kind |-> "more", title |-> "", children |-> <<"+", ToString(n), " more">>]

\* <div className="flex flex-wrap gap-1 pt-1 pb-1">{children}</div>
Div(children) == [t |-> "div", children |-> children]

\* <span className="text-gray-800">{child}</span>
Span(child) == [t |-> "span", children |-> <<child>>]

SkillsCellRendererNoSuffix(value) ==
    Div(IF value.t = "array" /\ Len(value.v) > 0
        THEN [i \in 1..Len(Slice0(value.v, maxTags)) |-> SkillTag(value.v[i])]
        ELSE <<NoSkillsSpan>>)
\* SkillsCellRenderer: the tags or the placeholder, then the "+N more" suffix
SkillsCellRenderer(value) ==
    LET isArray == value.t = "array"
        tags == IF isArray /\ Len(value.v) > 0
                THEN [i \in 1..Len(Slice0(value.v, maxTags)) |-> SkillTag(value.v[i])]
                ELSE <<NoSkillsSpan>>
        more == IF isArray /\ Len(value.v) > maxTags
                THEN <<MoreSpan(Len(value.v) - maxTags)>>
                ELSE <<>>
    IN  Div(tags \o more)

\* <span>{value !== null ? value : "None"}</span>
ManagerCellRenderer(value) == Span(IF value.t # "null" THEN value ELSE Str("None"))

\* what React shows for a child: nothing for undefined and null
ReactText(child) == IF child.t = "string" THEN child.v ELSE ""

----------------------------------------------------------------------------
(* Value formatters of the column definitions *)

managerValueFormatter(value) == IF value.t # "null" THEN value ELSE Str("None")

GroupSeparator == IF locale = "de-DE" THEN "." ELSE ","

Pad3(n) == IF n < 10 THEN "00" \o ToString(n)
           ELSE IF n < 100 THEN "0" \o ToString(n) ELSE ToString(n)

RECURSIVE GroupDigits(_)
GroupDigits(n) ==
    IF n < 1000 THEN ToString(n)
    ELSE GroupDigits(n \div 1000) \o GroupSeparator \o Pad3(n % 1000)

\* value.toLocaleString(): a TypeError on null and undefined, the string
\* itself on a string, the grouped digits on a non-negative integer
ToLocaleString(value) ==
    CASE value.t \in {"null", "undefined"} -> Throw("TypeError")
      [] value.t = "string" -> value
      [] value.t = "number" -> Str(GroupDigits(value.v))

\* (params) => `$${params.value.toLocaleString()}`
salaryValueFormatter(value) ==
    LET s == ToLocaleString(value)
    IN  IF s.t = "throw" THEN s ELSE Str("$" \o s.v)

\* (params) => params.value.toFixed(1): only a number has toFixed
performanceRatingValueFormatter(value) ==
    IF value.t = "number"
    THEN Str(ToString(value.x10 \div 10) \o "." \o ToString(value.x10 % 10))
    ELSE Throw("TypeError")

IsDigit(c) == c \in {"0", "1", "2", "3", "4", "5", "6", "7", "8", "9"}
DigitOf(c) == CHOOSE d \in 0..9 : ToString(d) = c

RECURSIVE ParseDigits(_)
ParseDigits(s) ==
    IF Len(s) = 0 THEN 0
    ELSE ParseDigits(SubSeq(s, 1, Len(s) - 1)) * 10 + DigitOf(SubSeq(s, Len(s), Len(s)))

IsLeapYear(y) == (y % 4 = 0 /\ y % 100 # 0) \/ y % 400 = 0

DaysInMonth(y, m) ==
    IF m = 2 THEN (IF IsLeapYear(y) THEN 29 ELSE 28)
    ELSE IF m \in {4, 6, 9, 11} THEN 30 ELSE 31

InvalidDate == [valid |-> FALSE]
Epoch == [valid |-> TRUE, y |-> 1970, m |-> 1, d |-> 1]

\* Date.parse of a date-only ISO string YYYY-MM-DD (midnight UTC); any other
\* string among the inputs is not a date: NaN
DateParse(s) ==
    IF /\ Len(s) = 10
       /\ SubSeq(s, 5, 5) = "-"
       /\ SubSeq(s, 8, 8) = "-"
       /\ \A i \in {1, 2, 3, 4, 6, 7, 9, 10} : IsDigit(SubSeq(s, i, i))
    THEN LET y == ParseDigits(SubSeq(s, 1, 4))
             m == ParseDigits(SubSeq(s, 6, 7))
             d == ParseDigits(SubSeq(s, 9, 10))
         IN  IF m \in 1..12 /\ d \in 1..DaysInMonth(y, m)
             THEN [valid |-> TRUE, y |-> y, m |-> m, d |-> d]
             ELSE InvalidDate
    ELSE InvalidDate

\* new Date(value)
NewDate(value) ==
    CASE value.t = "string" -> DateParse(value.v)
      [] value.t = "null" -> Epoch
      [] value.t = "undefined" -> InvalidDate

PreviousDay(date) ==
    IF date.d > 1 THEN [date EXCEPT !.d = date.d - 1]
    ELSE IF date.m > 1
         THEN [date EXCEPT !.m = date.m - 1, !.d = DaysInMonth(date.y, date.m - 1)]
         ELSE [date EXCEPT !.y = date.y - 1, !.m = 12, !.d = 31]

\* the calendar day of a UTC midnight in the runtime's time zone
LocalDay(date) == IF tzWest THEN PreviousDay(date) ELSE date

\* Date.prototype.toLocaleDateString()
ToLocaleDateString(date) ==
    IF ~date.valid THEN "Invalid Date"
    ELSE LET l == LocalDay(date)
         IN  IF locale = "de-DE"
             THEN ToString(l.d) \o "." \o ToString(l.m) \o "." \o ToString(l.y)
             ELSE ToString(l.m) \o "/" \o ToString(l.d) \o "/" \o ToString(l.y)

\* (params) => new Date(params.value).toLocaleDateString()
hireDateValueFormatter(value) == Str(ToLocaleDateString(NewDate(value)))

----------------------------------------------------------------------------
(* The grid formats and renders one cell *)

InitCells ==
    /\ gridRef = "null"
    /\ containerRef = FALSE
    /\ clientHeight = 0
    /\ themeRowHeight = 0
    /\ paginationPageSize = initialPageSize
    /\ locals = NoLocals
    /\ console = <<>>
    /\ locale \in Locales
    /\ tzWest \in BOOLEAN
    /\ cell \in Cells
    /\ display = [formatted |-> NotRun, rendered |-> NotRun]

Format(column, result) ==
    /\ cell.column = column
    /\ display.formatted = NotRun
    /\ display' = [display EXCEPT !.formatted = result]
    /\ UNCHANGED <<dashVars, locale, tzWest, cell>>

Render(column, result) ==
    /\ cell.column = column
    /\ display.rendered = NotRun
    /\ display' = [display EXCEPT !.rendered = result]
    /\ UNCHANGED <<dashVars, locale, tzWest, cell>>

RenderSkills == Render("skills", SkillsCellRenderer(cell.value))
RenderManager == Render("manager", ManagerCellRenderer(cell.value))
FormatManager == Format("manager", managerValueFormatter(cell.value))
FormatSalary == Format("salary", salaryValueFormatter(cell.value))
FormatRating == Format("performanceRating", performanceRatingValueFormatter(cell.value))
FormatHireDate == Format("hireDate", hireDateValueFormatter(cell.value))

NextCells ==
    \/ RenderSkills
    \/ RenderManager
    \/ FormatManager
    \/ FormatSalary
    \/ FormatRating
    \/ FormatHireDate

SpecCells == InitCells /\ [][NextCells]_vars

----------------------------------------------------------------------------
(* Properties of the dashboard model *)

\* the step is one call of calculateDynamicPageSize: it logs exactly one line
Invoked == Len(console') = Len(console) + 1

\* C1: for a positive container height h and row height r and the header
\* height 50, the computed page size p is the floor of (h - 50) / r, that is
\* p * r <= h - 50 < (p + 1) * r, whenever that floor is at least 1, and it is
\* exactly 1 when h <= 50 or (h - 50) / r is at most 1.
C1_PageSizeIsFloorOrOne ==
    locals.run =>
        LET h == locals.containerHeight
            r == locals.rowHeight
            p == locals.newPageSize
        IN  /\ h > 0 /\ r > 0
            /\ h > 50 => /\ p >= 1
                         /\ h - 50 >= r => p * r <= h - 50 /\ h - 50 < (p + 1) * r
                         /\ h - 50 < r => p = 1
            /\ (h <= 50 \/ h - 50 <= r) => p = 1

C1_Witness ==
    /\ locals.run
    /\ locals.containerHeight = 500
    /\ locals.rowHeight = 40
    /\ locals.newPageSize = 11

\* C2: a call of calculateDynamicPageSize with the grid api available always
\* completes with an integer page size >= 1; a missing or 0 container height
\* is taken as 400 and a 0 row height as 30.
C2_FallbacksAndAtLeastOne ==
    [][(Invoked /\ gridRef = "api") =>
          /\ locals'.run
          /\ locals'.containerHeight =
                IF ~containerRef \/ clientHeight = 0 THEN 400 ELSE clientHeight
          /\ locals'.rowHeight = IF themeRowHeight = 0 THEN 30 ELSE themeRowHeight
          /\ locals'.newPageSize \in Nat
          /\ locals'.newPageSize >= 1]_vars

C2_Witness ==
    /\ gridRef = "api"
    /\ ~containerRef
    /\ themeRowHeight = 0
    /\ locals.run
    /\ locals.containerHeight = 400
    /\ locals.rowHeight = 30
    /\ locals.newPageSize = 11

\* C3: every grid-ready event and every container-resize event invokes
\* calculateDynamicPageSize (the step of the event logs the call's line).
C3_EventsInvokeSizer ==
    [][((\E r \in RowHeights : GridReady(r)) \/ (\E h \in Heights : ContainerResize(h)))
          => Invoked]_vars

\* C9: a call of calculateDynamicPageSize leaves the grid's pagination page
\* size unchanged; the page size starts at 10, changes only when the user
\* selects a value, and is always one of 10, 20, 50, 100.
C9_PageSizeNotApplied ==
    /\ paginationPageSize = 10
    /\ [][/\ Invoked => paginationPageSize' = paginationPageSize
          /\ paginationPageSize' # paginationPageSize =>
                \E s \in {10, 20, 50, 100} : SelectPageSize(s)
          /\ paginationPageSize' \in {10, 20, 50, 100}]_vars

C9_Witness ==
    /\ locals.run
    /\ locals.newPageSize = 11
    /\ paginationPageSize = 10
    /\ Len(console) = MaxLog

\* C10: a call of calculateDynamicPageSize made while the grid api is not
\* available computes nothing (it only logs that the api is not available),
\* and a computation happens only in a state where the api is available.
C10_ComputesOnlyWithApi ==
    [][/\ (Invoked /\ gridRef # "api") =>
              /\ locals' = locals
              /\ console'[Len(console')] = ApiNotAvailableMsg
       /\ locals' # locals => gridRef = "api"]_vars

C10_Witness ==
    /\ Len(console) >= 2
    /\ console[1] = ApiNotAvailableMsg
    /\ console[2] = ApiAvailableMsg
    /\ locals.run

----------------------------------------------------------------------------
(* Properties of the cell model *)

RECURSIVE Concat(_)
Concat(parts) == IF Len(parts) = 0 THEN "" ELSE Head(parts) \o Concat(Tail(parts))

RECURSIVE DigitsOnly(_)
DigitsOnly(s) ==
    IF Len(s) = 0 THEN ""
    ELSE LET c == SubSeq(s, 1, 1)
         IN  (IF IsDigit(c) THEN c ELSE "") \o DigitsOnly(SubSeq(s, 2, Len(s)))

\* element e is the tag of skill: the skill as title, and as text the skill
\* itself when it has at most 15 characters, else its first 15 and "..."
IsTagOf(e, skill) ==
    /\ e.kind = "tag"
    /\ e.title = skill
    /\ LET label == e.children[1]
       IN  IF Len(skill) <= 15
           THEN label = skill
           ELSE /\ Len(label) = 18
                /\ SubSeq(label, 1, 15) = SubSeq(skill, 1, 15)
                /\ SubSeq(label, 16, 18) = "..."

SkillsRendered == cell.column = "skills" /\ display.rendered # NotRun

\* C4: SkillsCellRenderer renders a value that is no array or an empty array
\* as exactly one "No skills" placeholder and no suffix; 1 to 3 entries as
\* their tags in order and no suffix; more than 3 entries as the tags of the
\* first 3 followed by the suffix "+N more", N = length - 3.
C4_SkillsRendering ==
    SkillsRendered =>
        LET out == display.rendered.children
            n == IF cell.value.t = "array" THEN Len(cell.value.v) ELSE 0
        IN  /\ n = 0 => /\ Len(out) = 1
                        /\ out[1].kind = "placeholder"
                        /\ Concat(out[1].children) = "No skills"
            /\ n \in 1..3 => /\ Len(out) = n
                             /\ \A i \in 1..n : IsTagOf(out[i], cell.value.v[i])
            /\ n > 3 => /\ Len(out) = 4
                        /\ \A i \in 1..3 : IsTagOf(out[i], cell.value.v[i])
                        /\ out[4].kind = "more"
                        /\ Concat(out[4].children) = "+" \o ToString(n - 3) \o " more"

C4_Witness ==
    /\ SkillsRendered
    /\ cell.value.t = "array"
    /\ Len(cell.value.v) = 4
    /\ Len(cell.value.v[1]) > 15
    /\ Len(cell.value.v[2]) = 15

PythonCell ==
    [column |-> "skills",
     value |-> Arr(<<"Python Programming", "SQL", "Leadership", "Docker">>)]

\* the texts of the first three tags and of the suffix are as given
RendersTagsAndSuffix(labels, suffix) ==
    LET out == display.rendered.children
    IN  /\ Len(out) = 4
        /\ \A i \in 1..3 : out[i].kind = "tag" /\ out[i].children[1] = labels[i]
        /\ out[4].kind = "more"
        /\ Concat(out[4].children) = suffix

\* C5 as stated: ["Python Programming", "SQL", "Leadership", "Docker"] renders
\* the tags "Python Programmin...", "SQL", "Leadership" and the suffix "+1 more".
C5_Original ==
    (cell = PythonCell /\ display.rendered # NotRun) =>
        RendersTagsAndSuffix(<<"Python Programmin...", "SQL", "Leadership">>, "+1 more")

\* C5 amended: ["Python Programming", "SQL", "Leadership", "Docker"] renders
\* the tags "Python Programm...", "SQL", "Leadership" (the first 15 characters
\* of the long entry, then "...") and the suffix "+1 more".
C5_Amended ==
    (cell = PythonCell /\ display.rendered # NotRun) =>
        RendersTagsAndSuffix(<<"Python Programm...", "SQL", "Leadership">>, "+1 more")

C5_Witness == cell = PythonCell /\ display.rendered # NotRun

\* C6: the manager renderer and the manager value formatter show a null or
\* undefined manager as "None" and any string unchanged.
C6_ManagerNoneOrVerbatim ==
    cell.column = "manager" =>
        LET expected == IF cell.value.t \in {"null", "undefined"}
                        THEN "None" ELSE cell.value.v
        IN  /\ display.rendered # NotRun =>
                  ReactText(display.rendered.children[1]) = expected
            /\ display.formatted # NotRun => display.formatted = Str(expected)

\* C7: the salary and performanceRating formatters never throw: a value that
\* is no number yields a string; a number yields "$" and the grouped digits
\* for salary, and the number with exactly one decimal place for the rating.
C7_NumericFormattersNeverThrow ==
    (cell.column \in {"salary", "performanceRating"} /\ display.formatted # NotRun) =>
        LET f == display.formatted
        IN  /\ f.t = "string"
            /\ (cell.column = "salary" /\ cell.value.t = "number") =>
                  /\ SubSeq(f.v, 1, 1) = "$"
                  /\ DigitsOnly(f.v) = ToString(cell.value.v)
            /\ (cell.column = "performanceRating" /\ cell.value.t = "number") =>
                  /\ Len(f.v) >= 3
                  /\ SubSeq(f.v, Len(f.v) - 1, Len(f.v) - 1) = "."
                  /\ IsDigit(SubSeq(f.v, Len(f.v), Len(f.v)))

\* C8: the hireDate formatter never throws, returns an unparsable string
\* unchanged, and renders a parsable string as the formatted date.
C8_HireDateAsIsWhenUnparsable ==
    (cell.column = "hireDate" /\ display.formatted # NotRun) =>
        LET f == display.formatted
        IN  /\ f.t = "string"
            /\ (cell.value.t = "string" /\ cell.value.v \in UnparsableDates) =>
                  f = cell.value
            /\ (cell.value.t = "string" /\ cell.value.v \in ParsableDates) =>
                  f.v \notin {"Invalid Date", cell.value.v}

\* sample outputs of the formatters
FormatSamples ==
    /\ (cell = [column |-> "salary", value |-> Num(1234567)]
            /\ display.formatted # NotRun /\ locale = "en-US")
          => display.formatted = Str("$1,234,567")
    /\ (cell = [column |-> "salary", value |-> Num(1000)]
            /\ display.formatted # NotRun /\ locale = "de-DE")
          => display.formatted = Str("$1.000")
    /\ (cell = [column |-> "salary", value |-> Str("n/a")] /\ display.formatted # NotRun)
          => display.formatted = Str("$n/a")
    /\ (cell = [column |-> "performanceRating", value |-> Tenths(38)]
            /\ display.formatted # NotRun)
          => display.formatted = Str("3.8")
    /\ (cell = [column |-> "hireDate", value |-> Str("2020-03-01")]
            /\ display.formatted # NotRun /\ locale = "en-US")
          => display.formatted = Str(IF tzWest THEN "2/29/2020" ELSE "3/1/2020")
    /\ (cell = [column |-> "hireDate", value |-> Str("2021-01-01")]
            /\ display.formatted # NotRun /\ locale = "de-DE")
          => display.formatted = Str(IF tzWest THEN "31.12.2020" ELSE "1.1.2021")
    /\ (cell = [column |-> "hireDate", value |-> Null] /\ display.formatted # NotRun
            /\ locale = "en-US" /\ ~tzWest)
          => display.formatted = Str("1/1/1970")
    /\ (cell = [column |-> "hireDate", value |-> Str("2020-13-01")]
            /\ display.formatted # NotRun)
          => display.formatted = Str("Invalid Date")

====
